---------------------------- MODULE Spec2Model ----------------------------
(***************************************************************************)
(* Model of the RU/UA feed converter (src/bot_1_2.py, the latest version   *)
(* of the bot; bot_1_0.py and bot_1_1.py are its earlier versions).        *)
(*                                                                         *)
(* Text is a sequence of one-character strings, so that trimming,          *)
(* splitting and escaping are computed and not assumed.  A missing cell    *)
(* (pandas NaN) is the value NaN.  Cyrillic column names and labels are    *)
(* written in Latin transliteration.                                       *)
(***************************************************************************)
EXTENDS Naturals, Integers, Sequences, FiniteSets, TLC

VARIABLES
    done,      \* the steps that have run: a subset of Steps
    row,       \* the row handed to build_image_list
    urls,      \* the list build_image_list returned
    desired_format,  \* sess.desired_format: None, "xlsx" or "yml"
    df_ru,     \* sess.files[0]: the base (RU) table, headers normalized
    df_ua,     \* sess.files[1]: the translation (UA) table
    merged,    \* what merge_ru_ua returned: [raised, df]
    out_df,    \* what to_prom_excel returned
    artifact,  \* the sheet out_df.to_excel wrote: [columns, rows]
    yml,       \* the element tree to_prom_yml built
    xml_text,  \* the document ET.tostring wrote, element by element
    answer,    \* the last message the handler answered: [kind, e]
    log,       \* the lines log_error appended to the log file
    picked_price,  \* what pick_price returned for row
    raw_columns,   \* the headers of a table as read from the file
    alias_list,  \* the alias list handed to find_first_col
    found_col, \* what find_first_col returned
    files,     \* sess.files: the tables uploaded and not yet used
    sess_key_requests,  \* sess.sess_key_requests
    waiting_for_requests,  \* sess.waiting_for_requests
    keywords,  \* the key phrases the user has sent as a text message
    update,    \* the update the last handler was called with: [type, data]
    pc,        \* where each receive_file task in flight stands
    document,  \* message.document of each receive_file task
    out_file,  \* the file at out_path: <<the task that wrote it>>, or <<>>
    owners,    \* for each table of sess.files, the task that stored it
    generations  \* the generations run so far: [by, used, status, e]

vars == <<done, row, urls, desired_format, df_ru, df_ua, merged, out_df, artifact, yml, xml_text,
          answer, log, picked_price, raw_columns, alias_list, found_col,
          files, sess_key_requests, waiting_for_requests, keywords, update,
          pc, document, out_file, owners, generations>>

\* the variables of the single functions and of the session
fn_vars == <<picked_price, raw_columns, alias_list, found_col>>
sess_vars == <<files, sess_key_requests, waiting_for_requests, keywords, update>>

conc_vars == <<pc, document, out_file, owners, generations>>

\* nothing handed to a function yet
IdleFn ==
    /\ picked_price = <<>> /\ raw_columns = <<>>
    /\ alias_list = <<>> /\ found_col = <<>>

\* Session(desired_format=None, files=[], sess_key_requests=[]), nothing sent
IdleSess ==
    /\ files = <<>> /\ sess_key_requests = <<>>
    /\ waiting_for_requests = FALSE /\ keywords = <<>>
    /\ update = [type |-> "none", data |-> <<>>]

\* no receive_file task in flight
IdleConc ==
    /\ pc = <<>> /\ document = <<>> /\ out_file = <<>>
    /\ owners = <<>> /\ generations = <<>>

\* no generation yet
IdleExport ==
    /\ df_ru = <<>> /\ df_ua = <<>> /\ merged = <<>>
    /\ out_df = <<>> /\ artifact = <<>> /\ yml = <<>> /\ xml_text = <<>>

Steps == {"images", "merged", "xlsx", "yml", "price", "cols"}

---------------------------------------------------------------------------
(* Bounds of the model *)

\* longest text of a photo cell drawn over CellChars
MaxCellLen == 2

\* most rows of an uploaded table
MaxRows == 2

\* longest text of a price cell drawn over PriceChars
MaxPriceLen == 2

\* longest header of an uploaded table drawn over HeaderChars
MaxHeaderLen == 2

\* most receive_file tasks of one user in flight
MaxTasks == 2

\* most tables a session is let to pile up, most lines the log is let to hold
MaxFiles == 3
MaxLog == 2

---------------------------------------------------------------------------
(* Text primitives (Python str methods and pandas cell tests) *)

NaN == <<"NaN">>

notna(c) == c # NaN

\* a float is its repr, tagged: float 19.99 is <<"float", "1", "9", ".", "9", "9">>
IsFloat(c) == c # <<>> /\ c[1] = "float"

\* str(x) of a cell: NaN prints as "nan", a float as its repr, text is itself
str(c) ==
    IF c = NaN THEN <<"n", "a", "n">>
    ELSE IF IsFloat(c) THEN Tail(c) ELSE c

WS == {" "}

RECURSIVE lstrip(_)
lstrip(s) ==
    IF s = <<>> THEN s
    ELSE IF Head(s) \in WS THEN lstrip(Tail(s)) ELSE s

RECURSIVE rstrip(_)
rstrip(s) ==
    IF s = <<>> THEN s
    ELSE IF s[Len(s)] \in WS THEN rstrip(SubSeq(s, 1, Len(s) - 1)) ELSE s

strip(s) == rstrip(lstrip(s))

\* s.split(sep) for a one-character separator
RECURSIVE split(_, _)
split(s, sep) ==
    IF \A i \in 1..Len(s) : s[i] # sep THEN <<s>>
    ELSE LET i == CHOOSE k \in 1..Len(s) :
                      s[k] = sep /\ \A j \in 1..(k - 1) : s[j] # sep
         IN  <<SubSeq(s, 1, i - 1)>> \o split(SubSeq(s, i + 1, Len(s)), sep)

Range(s) == {s[i] : i \in 1..Len(s)}

RECURSIVE Flatten(_)
Flatten(ss) == IF ss = <<>> THEN <<>> ELSE Head(ss) \o Flatten(Tail(ss))

\* list(dict.fromkeys(xs)): first occurrence of each value, order kept
dict_fromkeys(xs) ==
    LET firsts == {i \in 1..Len(xs) : \A j \in 1..(i - 1) : xs[j] # xs[i]}
    IN  [k \in 1..Cardinality(firsts) |->
            xs[CHOOSE i \in firsts : Cardinality({j \in firsts : j < i}) = k - 1]]

\* xs[:n]
Take(xs, n) == SubSeq(xs, 1, IF Len(xs) < n THEN Len(xs) ELSE n)

---------------------------------------------------------------------------
(* SRC["photos"] and build_image_list *)

SRC_photos ==
    << "main photo", "photo1", "photo2", "photo3", "photo4", "photo5",
       "photo6", "photo7", "photo8", "photo9", "photo10",
       "posylannya_zobrazhennya", "izobrazhenie" >>

MaxPhotos == 10

\* [p.strip() for p in str(row[col]).split(",") if p.strip()]
CellUrls(c) ==
    LET parts == split(str(c), ",")
        NonEmpty(p) == strip(p) # <<>>
        kept == SelectSeq(parts, NonEmpty)
    IN  [i \in 1..Len(kept) |-> strip(kept[i])]

\* urls after the loop over SRC["photos"], before deduplication
CollectUrls(r) ==
    Flatten([i \in 1..Len(SRC_photos) |->
                IF SRC_photos[i] \in DOMAIN r /\ notna(r[SRC_photos[i]])
                THEN CellUrls(r[SRC_photos[i]])
                ELSE <<>>])

\* mutant: truncate before deduplicating
build_image_list_TruncFirst(r) == dict_fromkeys(Take(CollectUrls(r), MaxPhotos))

build_image_list(r) == Take(dict_fromkeys(CollectUrls(r)), MaxPhotos)

---------------------------------------------------------------------------
(* SpecImg: build_image_list applied to bounded rows *)

UrlChars == {"a", "b"}
CellChars == UrlChars \cup {",", " "}

RECURSIVE StrsUpTo(_, _)
StrsUpTo(chars, n) ==
    IF n = 0 THEN {<<>>}
    ELSE LET shorter == StrsUpTo(chars, n - 1)
         IN  shorter \cup {Append(s, ch) : s \in shorter, ch \in chars}

\* every cell text up to MaxCellLen, and the missing cell
SmallCells == {NaN} \cup (StrsUpTo(CellChars, MaxCellLen) \ {<<>>})

\* a one-column-many-photos cell with ten URLs, and one repeating "a"
LongCells ==
    { NaN,
      <<"c", ",", "d", ",", "e", ",", "f", ",", "g", ",", "h", ",",
        "i", ",", "j", ",", "k", ",", "l">>,
      <<"c", ",", " ", "a", ",", "c">> }

\* the photo columns of the table, not in alias order
ImgRows ==
    { [c \in {"photo1", "main photo", "izobrazhenie"} |->
          CASE c = "photo1" -> x
            [] c = "main photo" -> y
            [] OTHER -> z] :
      x \in SmallCells, y \in SmallCells, z \in LongCells }

InitImg ==
    /\ done = {}
    /\ row \in ImgRows
    /\ urls = <<>>
    /\ desired_format = ""
    /\ df_ru = <<>> /\ df_ua = <<>> /\ merged = <<>>
    /\ out_df = <<>> /\ artifact = <<>> /\ yml = <<>> /\ xml_text = <<>>
    /\ answer = <<>> /\ log = <<>>
    /\ IdleFn /\ IdleSess /\ IdleConc

BuildImageList ==
    /\ "images" \notin done
    /\ urls' = build_image_list(row)
    /\ done' = done \cup {"images"}
    /\ UNCHANGED <<row, desired_format, df_ru, df_ua, merged, out_df, artifact, yml, xml_text,
                 answer, log, fn_vars, sess_vars, conc_vars>>

NextImg == BuildImageList

SpecImg == InitImg /\ [][NextImg]_vars

---------------------------------------------------------------------------
(* C3 *)

\* occurrences <<alias index, piece index, url>> of the URLs of row r
Occurrences(r) ==
    UNION { LET ps == split(str(r[SRC_photos[i]]), ",")
            IN  { <<i, j, strip(ps[j])>> : j \in {m \in 1..Len(ps) : strip(ps[m]) # <<>>} } :
            i \in {n \in 1..Len(SRC_photos) :
                     SRC_photos[n] \in DOMAIN r /\ notna(r[SRC_photos[n]])} }

UrlSet(r) == {o[3] : o \in Occurrences(r)}

Before(p, q) == p[1] < q[1] \/ (p[1] = q[1] /\ p[2] < q[2])

\* the first place, in alias order and then piece order, where u occurs
FirstSeen(occ, u) ==
    CHOOSE p \in occ :
        /\ p[3] = u
        /\ \A q \in occ : q[3] = u => (q = p \/ Before(p, q))

\* C3: build_image_list returns at most 10 URLs, none twice, each a trimmed
\* non-empty comma-separated piece of a photo cell, in first-seen order over
\* the photo aliases in declared order: exactly the first 10 distinct ones.
C3_ImageList ==
    "images" \in done =>
        LET occ == Occurrences(row)
            us == {o[3] : o \in occ}
            first == [u \in us |-> FirstSeen(occ, u)]
            \* how many distinct URLs are first seen before u
            rank == [u \in us |-> Cardinality({v \in us : Before(first[v], first[u])})]
        IN  /\ Len(urls) <= 10
            /\ \A i, j \in 1..Len(urls) : i # j => urls[i] # urls[j]
            /\ \A i \in 1..Len(urls) :
                  /\ urls[i] # <<>>
                  /\ "," \notin Range(urls[i])
                  /\ urls[i][1] \notin WS
                  /\ urls[i][Len(urls[i])] \notin WS
                  /\ urls[i] \in us
            /\ \A i, j \in 1..Len(urls) :
                  i < j => Before(first[urls[i]], first[urls[j]])
            /\ \A u \in us : (u \in Range(urls)) <=> (rank[u] < 10)

\* a row with more than ten distinct URLs, one of them repeated, was processed
C3_Witness ==
    /\ "images" \in done
    /\ Cardinality(UrlSet(row)) > 10
    /\ Len(CollectUrls(row)) > Cardinality(UrlSet(row))
    /\ Len(urls) = 10

---------------------------------------------------------------------------
(* Settings: CURRENCY, SRC, PROM_XLS_COLS *)

CURRENCY == <<"U", "A", "H">>

SRC_id == <<"product code", "main sku", "kod", "artykul">>
SRC_name == <<"name", "nazva", "nazvanie">>
SRC_qty == <<"quantity", "kilkist", "kolichestvo">>
SRC_price == <<"special price", "price", "tsina", "tsena">>
SRC_description == <<"description", "opys", "opisanie">>

\* SRC["params_primary"]: (source column, label written to the feed)
SRC_params_primary ==
    << <<"size of the set", "Typ komplekta">>,
       <<"size extra", "Dodatkovyi rozmir">>,
       <<"sheet size", "Rozmir prostyradla">>,
       <<"size of the pillowcase", "Rozmir navolochky">>,
       <<"dimensions of the duvet cover", "Rozmir pidkovdry">>,
       <<"fabric type", "Typ tkanyny">>,
       <<"composition", "Sklad">>,
       <<"density", "Shchilnist">>,
       <<"color", "Tsv">>,
       <<"country of manufacture", "Strana proizvoditel">>,
       <<"brand registration country", "Kraina reiestratsii brendu">>,
       <<"producer", "Proizvoditel">>,
       <<"sheet", "Prostyradlo">>,
       <<"pillowcase", "Navolochka">>,
       <<"a feature of pillowcases", "Osoblyvist navolochok">>,
       <<"sheet with elastic band", "Prostyradlo na rezyntsi">>,
       <<"gift packaging", "Podarunkova upakovka">>,
       <<"available layout options", "Dostupni komplektatsii">>,
       <<"fabrics \"a\" (top of the quilt)", "Tkanyna A (verkh kovdry)">>,
       <<"fabrics \"b\" (bed sheet)", "Tkanyna B (prostyradlo)">>,
       <<"bonus", "Bonus">> >>

\* the triplet groups of the schema: range(1, 21)
XlsTriplets == 20

XlsPrefixes ==
    << "Nazva_Kharakterystyky", "Odynytsya_vymiru_Kharakterystyky",
       "Znachennya_Kharakterystyky" >>

\* a column of the export: <<name, 0>>, or <<prefix, i>> for f"{prefix}_{i}"
Col(name) == <<name, 0>>

TripletCols(i) == [k \in 1..3 |-> <<XlsPrefixes[k], i>>]

PROM_XLS_COLS ==
    << Col("Kod_tovaru"), Col("Nazva_pozytsii"), Col("Nazva_pozytsii_ukr"),
       Col("Opys"), Col("Opys_ukr"), Col("Tsina"), Col("Valyuta"),
       Col("Kilkist"), Col("Posylannya_zobrazhennya"), Col("Klyuchovi_frazy") >>
    \o Flatten([i \in 1..XlsTriplets |-> TripletCols(i)])

---------------------------------------------------------------------------
(* Utilities *)

None == "None"

\* x or d, for a column name or None
OrElse(x, d) == IF x = None THEN d ELSE x

\* s.lower(), for the Latin letters
lower(s) ==
    LET upper == <<"A", "B", "C", "D", "E", "F", "G", "H", "I", "J", "K", "L", "M",
                   "N", "O", "P", "Q", "R", "S", "T", "U", "V", "W", "X", "Y", "Z">>
        small == <<"a", "b", "c", "d", "e", "f", "g", "h", "i", "j", "k", "l", "m",
                   "n", "o", "p", "q", "r", "s", "t", "u", "v", "w", "x", "y", "z">>
    IN  [i \in 1..Len(s) |->
            IF \E k \in 1..26 : upper[k] = s[i]
            THEN small[CHOOSE k \in 1..26 : upper[k] = s[i]]
            ELSE s[i]]

\* df.columns = [str(c).strip().lower() for c in df.columns]; a row keeps
\* its cells under the new names
normalize_df(df) ==
    LET cols == [i \in 1..Len(df.columns) |-> lower(strip(str(df.columns[i])))]
        At(c) == CHOOSE i \in 1..Len(cols) :
                    cols[i] = c /\ \A j \in 1..Len(cols) : cols[j] = c => i <= j
    IN  [columns |-> cols,
         rows |-> [k \in 1..Len(df.rows) |->
                     [c \in Range(cols) |-> df.rows[k][df.columns[At(c)]]]]]

\* mutant: the first column of the table that is an alias
find_first_col_ColumnOrder(df, candidates) ==
    LET hit == {i \in 1..Len(df.columns) : df.columns[i] \in Range(candidates)}
    IN  IF hit = {} THEN None
        ELSE df.columns[CHOOSE i \in hit : \A j \in hit : i <= j]

find_first_col(df, candidates) ==
    LET hit == {i \in 1..Len(candidates) : candidates[i] \in Range(df.columns)}
    IN  IF hit = {} THEN None
        ELSE candidates[CHOOSE i \in hit : \A j \in hit : i <= j]

\* SpecCols: find_first_col on the normalized headers of a table

HeaderChars == {"a", "B", " "}

\* the headers a file can have: text, or a missing header
RawHeaders == StrsUpTo(HeaderChars, MaxHeaderLen) \cup {NaN}

\* alias lists over the names a and b; an alias that is not lower-case
\* matches no normalized header
AliasLists ==
    { << <<"a">>, <<"b">> >>,
      << <<"b">>, <<"a">> >>,
      << <<"a", "b">>, <<"a">> >>,
      << <<"b", "a">>, <<"b">>, <<"a">> >>,
      << <<"B">>, <<"a">> >>,
      << <<"n", "a", "n">>, <<"b">> >> }

InitCols ==
    /\ done = {}
    /\ \E h1 \in RawHeaders, h2 \in RawHeaders :
          raw_columns = [columns |-> <<h1, h2>>, rows |-> <<>>]
    /\ alias_list \in AliasLists
    /\ found_col = <<>> /\ picked_price = <<>>
    /\ row = <<>> /\ urls = <<>> /\ desired_format = ""
    /\ IdleExport
    /\ answer = <<>> /\ log = <<>>
    /\ IdleSess /\ IdleConc

\* df = normalize_df(df), then find_first_col(df, candidates)
ResolveColumn ==
    /\ "cols" \notin done
    /\ found_col' = find_first_col(normalize_df(raw_columns), alias_list)
    /\ done' = done \cup {"cols"}
    /\ UNCHANGED <<row, urls, desired_format, df_ru, df_ua, merged, out_df, artifact,
                   yml, xml_text, answer, log, picked_price, raw_columns, alias_list,
                   sess_vars, conc_vars>>

NextCols == ResolveColumn

SpecCols == InitCols /\ [][NextCols]_vars

\* sep.join(parts)
RECURSIVE join(_, _)
join(sep, parts) ==
    IF parts = <<>> THEN <<>>
    ELSE IF Len(parts) = 1 THEN parts[1]
    ELSE parts[1] \o sep \o join(sep, Tail(parts))

\* s.replace(old, new) for a one-character old
replace(s, old, new) ==
    Flatten([i \in 1..Len(s) |-> IF s[i] = old THEN new ELSE <<s[i]>>])

\* r.get(key, default) on a row
get(r, key, default) == IF key \in DOMAIN r THEN r[key] ELSE default

\* df[c] = vals: a new column is appended, an existing one is overwritten
SetCol(df, c, vals) ==
    [columns |-> IF c \in Range(df.columns) THEN df.columns ELSE Append(df.columns, c),
     rows |-> [i \in 1..Len(df.rows) |->
                 [x \in DOMAIN df.rows[i] \cup {c} |->
                     IF x = c THEN vals[i] ELSE df.rows[i][x]]]]

\* df[c] as a list
ColVals(df, c) == [i \in 1..Len(df.rows) |-> df.rows[i][c]]

\* .astype(str) on a column
astype_str(vals) == [i \in 1..Len(vals) |-> str(vals[i])]

\* a Series assigned to a frame of n rows is aligned on the row index:
\* row i takes the value at index i, NaN where the Series has none
AlignOnIndex(vals, n) == [i \in 1..n |-> IF i <= Len(vals) THEN vals[i] ELSE NaN]

---------------------------------------------------------------------------
(* Python values: None, truthiness, float() *)

NoneV == <<"None">>

Digits == {"0", "1", "2", "3", "4", "5", "6", "7", "8", "9"}

ValueError == <<"ValueError">>

RECURSIVE DropLeadingZeros(_)
DropLeadingZeros(ds) ==
    IF ds # <<>> /\ Head(ds) = "0" THEN DropLeadingZeros(Tail(ds)) ELSE ds

RECURSIVE DropTrailingZeros(_)
DropTrailingZeros(ds) ==
    IF ds # <<>> /\ ds[Len(ds)] = "0"
    THEN DropTrailingZeros(SubSeq(ds, 1, Len(ds) - 1)) ELSE ds

\* float(s) for text made of a sign, digits, one point and blanks: the float
\* (in its repr, leading and trailing zeros gone) or ValueError
float(s0) ==
    LET s == strip(s0)
        signed == s # <<>> /\ s[1] \in {"-", "+"}
        body == IF signed THEN Tail(s) ELSE s
        dots == {i \in 1..Len(body) : body[i] = "."}
        ok == /\ \A i \in 1..Len(body) : body[i] \in Digits \cup {"."}
              /\ Cardinality(dots) <= 1
              /\ \E i \in 1..Len(body) : body[i] \in Digits
        d == IF dots = {} THEN Len(body) + 1 ELSE CHOOSE i \in dots : TRUE
        ip == DropLeadingZeros(SubSeq(body, 1, d - 1))
        fp == DropTrailingZeros(SubSeq(body, d + 1, Len(body)))
    IN  IF ~ok THEN ValueError
        ELSE <<"float">>
             \o (IF signed /\ s[1] = "-" THEN <<"-">> ELSE <<>>)
             \o (IF ip = <<>> THEN <<"0">> ELSE ip)
             \o <<".">>
             \o (IF fp = <<>> THEN <<"0">> ELSE fp)

IsZero(f) == \A i \in 2..Len(f) : f[i] \in {"0", ".", "-"}

\* bool(v): NaN is true, None, '' and 0.0 are false
Truthy(v) ==
    IF v = NaN THEN TRUE
    ELSE IF v = NoneV \/ v = <<>> THEN FALSE
    ELSE IF IsFloat(v) THEN ~IsZero(v)
    ELSE TRUE

---------------------------------------------------------------------------
(* pick_price *)

\* mutant: a value that does not parse lets the next alias column decide
pick_price_NextAlias(r) ==
    LET Parsed(c) == float(strip(replace(str(r[c]), ",", <<".">>)))
        hit == {i \in 1..Len(SRC_price) :
                   /\ SRC_price[i] \in DOMAIN r /\ notna(r[SRC_price[i]])
                   /\ Parsed(SRC_price[i]) # ValueError}
    IN  IF hit = {} THEN NoneV
        ELSE Parsed(SRC_price[CHOOSE i \in hit : \A j \in hit : i <= j])

pick_price(r) ==
    LET hit == {i \in 1..Len(SRC_price) :
                   SRC_price[i] \in DOMAIN r /\ notna(r[SRC_price[i]])}
    IN  IF hit = {} THEN NoneV
        ELSE LET c == SRC_price[CHOOSE i \in hit : \A j \in hit : i <= j]
                 v == float(strip(replace(str(r[c]), ",", <<".">>)))
             IN  IF v = ValueError THEN NoneV ELSE v

---------------------------------------------------------------------------
(* SpecPrice: pick_price on one row *)

PriceChars == {"1", ",", "x", " "}

PriceCells == {NaN} \cup StrsUpTo(PriceChars, MaxPriceLen)

\* the cells of the last alias column: empty, a number cell, text
LastPriceCells == {NaN, <<"float", "7", ".", "0">>, <<"2">>}

InitPrice ==
    /\ done = {}
    /\ \E D \in { {"kod"} \cup S : S \in SUBSET {"special price", "price", "tsena"} } :
          \E a \in PriceCells, b \in PriceCells, z \in LastPriceCells :
              row = [c \in D |-> CASE c = "special price" -> a
                                    [] c = "price" -> b
                                    [] c = "tsena" -> z
                                    [] OTHER -> <<"1">>]
    /\ urls = <<>> /\ desired_format = ""
    /\ IdleExport
    /\ answer = <<>> /\ log = <<>>
    /\ IdleFn /\ IdleSess /\ IdleConc

PickPrice ==
    /\ "price" \notin done
    /\ picked_price' = pick_price(row)
    /\ done' = done \cup {"price"}
    /\ UNCHANGED <<row, urls, desired_format, df_ru, df_ua, merged, out_df, artifact,
                   yml, xml_text, answer, log, raw_columns, alias_list, found_col,
                   sess_vars, conc_vars>>

NextPrice == PickPrice

SpecPrice == InitPrice /\ [][NextPrice]_vars

---------------------------------------------------------------------------
(* merge_ru_ua *)

\* df[key] for a column the frame lacks: the exception, no frame
KeyError(key) == [raised |-> TRUE, e |-> key, df |-> [columns |-> <<>>, rows |-> <<>>]]

\* mutant: a base row keeps only its first match
LeftJoinRows_FirstMatch(left, right, on, new) ==
    [i \in 1..Len(left) |->
        LET Match(u) == u[on] = left[i][on]
            ms == SelectSeq(right, Match)
        IN  [x \in DOMAIN left[i] \cup {new} |->
                IF x = new THEN (IF ms = <<>> THEN NaN ELSE ms[1][new])
                ELSE left[i][x]]]

\* the rows of left.merge(right, on=on, how='left'), right having the
\* columns on and new: left order kept, one row per match in right order,
\* one row with NaN where nothing matches
LeftJoinRows(left, right, on, new) ==
    Flatten([i \in 1..Len(left) |->
        LET Match(u) == u[on] = left[i][on]
            ms == SelectSeq(right, Match)
            With(v) == [x \in DOMAIN left[i] \cup {new} |->
                           IF x = new THEN v ELSE left[i][x]]
        IN  IF ms = <<>> THEN <<With(NaN)>>
            ELSE [k \in 1..Len(ms) |-> With(ms[k][new])]])

\* df[col].astype(str).str.strip() stored as df["_id"]
WithId(df, col) ==
    LET ids == astype_str(ColVals(df, col))
    IN  SetCol(df, "_id", [i \in 1..Len(ids) |-> strip(ids[i])])

\* merged['Opys'] = src[col].astype(str) if col else '': the Series is
\* aligned with the merged frame by row position
DescriptionColumn(mdf, src, col) ==
    IF col = "" THEN [i \in 1..Len(mdf.rows) |-> <<>>]
    ELSE AlignOnIndex(astype_str(ColVals(src, col)), Len(mdf.rows))

merge_ru_ua(ru0, ua0) ==
    LET col_id_ru == OrElse(find_first_col(ru0, SRC_id), "kod")
        col_id_ua == OrElse(find_first_col(ua0, SRC_id), "kod")
        col_name_ru == OrElse(find_first_col(ru0, SRC_name), "nazvanie")
        col_name_ua == OrElse(find_first_col(ua0, SRC_name), "nazva")
    IN  IF col_id_ru \notin Range(ru0.columns) THEN KeyError(col_id_ru)
        ELSE IF col_id_ua \notin Range(ua0.columns) THEN KeyError(col_id_ua)
        ELSE IF col_name_ua \notin Range(ua0.columns) THEN KeyError(col_name_ua)
        ELSE IF col_name_ru \notin Range(ru0.columns) THEN KeyError(col_name_ru)
        ELSE
        LET ru == WithId(ru0, col_id_ru)
            ua == WithId(ua0, col_id_ua)
            \* df_ua[['_id', col_name_ua]].rename(...)
            right == [i \in 1..Len(ua.rows) |->
                        [x \in {"_id", "Nazva_pozytsii_ukr"} |->
                            IF x = "_id" THEN ua.rows[i]["_id"]
                            ELSE ua.rows[i][col_name_ua]]]
            m0 == [columns |-> Append(ru.columns, "Nazva_pozytsii_ukr"),
                   rows |-> LeftJoinRows(ru.rows, right, "_id", "Nazva_pozytsii_ukr")]
            m1 == SetCol(m0, "Nazva_pozytsii", astype_str(ColVals(m0, col_name_ru)))
            m2 == SetCol(m1, "Kod_tovaru", ColVals(m1, "_id"))
            col_desc_ru == OrElse(find_first_col(ru, SRC_description), "")
            col_desc_ua == OrElse(find_first_col(ua, SRC_description), "")
            m3 == SetCol(m2, "Opys", DescriptionColumn(m2, ru, col_desc_ru))
            m4 == SetCol(m3, "Opys_ukr", DescriptionColumn(m3, ua, col_desc_ua))
        IN  [raised |-> FALSE, e |-> None, df |-> m4]

---------------------------------------------------------------------------
(* to_prom_excel *)

\* the (label, '', value) triplets of a row, in the order of SRC["params_primary"]
Triplets(r) ==
    LET Filled(p) == /\ p[1] \in DOMAIN r
                     /\ notna(r[p[1]])
                     /\ strip(str(r[p[1]])) # <<>>
        ps == SelectSeq(SRC_params_primary, Filled)
    IN  [i \in 1..Len(ps) |-> <<ps[i][2], <<>>, strip(str(r[ps[i][1]]))>>]

\* the dict built for one row: its keys in insertion order and its values
Item(r, col_qty, key_requests) ==
    LET tr == Triplets(r)
        n == Len(tr)
        extra == IF n > XlsTriplets
                 THEN Flatten([j \in 1..(n - XlsTriplets) |-> TripletCols(XlsTriplets + j)])
                 ELSE <<>>
        keys == PROM_XLS_COLS \o extra
        price == pick_price(r)
    IN  [keys |-> keys,
         val |-> [k \in Range(keys) |->
            IF k[2] > 0 THEN
                IF k[2] > n THEN <<>>
                ELSE IF k[1] = XlsPrefixes[1] THEN <<tr[k[2]][1]>>
                ELSE IF k[1] = XlsPrefixes[2] THEN tr[k[2]][2]
                ELSE tr[k[2]][3]
            ELSE CASE k[1] = "Kod_tovaru" -> get(r, "Kod_tovaru", <<>>)
                   [] k[1] = "Nazva_pozytsii" -> get(r, "Nazva_pozytsii", <<>>)
                   [] k[1] = "Nazva_pozytsii_ukr" -> get(r, "Nazva_pozytsii_ukr", <<>>)
                   [] k[1] = "Opys" -> get(r, "Opys", <<>>)
                   [] k[1] = "Opys_ukr" -> get(r, "Opys_ukr", <<>>)
                   [] k[1] = "Tsina" -> IF Truthy(price) THEN price ELSE <<>>
                   [] k[1] = "Valyuta" -> CURRENCY
                   [] k[1] = "Kilkist" -> get(r, col_qty, <<>>)
                   [] k[1] = "Posylannya_zobrazhennya" ->
                          join(<<",", " ">>, build_image_list(r))
                   [] k[1] = "Klyuchovi_frazy" ->
                          IF key_requests # <<>> /\ key_requests # NoneV
                          THEN join(<<",", " ">>, key_requests) ELSE <<>>
                   [] OTHER -> <<>>]]

\* the keys of a list of dicts in the order they first appear
RECURSIVE FirstAppearance(_)
FirstAppearance(items) ==
    IF items = <<>> THEN <<>>
    ELSE LET prev == FirstAppearance(SubSeq(items, 1, Len(items) - 1))
             seen == Range(prev)
             New(k) == k \notin seen
         IN  prev \o SelectSeq(items[Len(items)].keys, New)

\* pd.DataFrame(rows) for a list of dicts: the columns are the keys in the
\* order they first appear, a key a dict lacks is NaN; no dict, no column
DataFrame(items) ==
    LET cols == FirstAppearance(items)
        colset == Range(cols)
    IN  [columns |-> cols,
         rows |-> [i \in 1..Len(items) |->
                     LET it == items[i]
                         have == Range(it.keys)
                     IN  [c \in colset |-> IF c \in have THEN it.val[c] ELSE NaN]]]

to_prom_excel(df, key_requests) ==
    LET col_qty == OrElse(find_first_col(df, SRC_qty), "quantity")
        \* for _, r in df.iterrows(): every row becomes an item
        rs == df.rows
    IN  DataFrame([i \in 1..Len(rs) |-> Item(rs[i], col_qty, key_requests)] \o <<>>)

---------------------------------------------------------------------------
(* to_prom_yml *)

xml_safe(val) ==
    replace(replace(replace(str(val), "&", <<"&", "a", "m", "p", ";">>),
                    "<", <<"&", "l", "t", ";">>),
            ">", <<"&", "g", "t", ";">>)

Node(tag, name, text) == [tag |-> tag, name |-> name, text |-> text]

\* the children of one offer, in the order they are created
OfferChildren(r, col_qty, key_requests) ==
    LET name == get(r, "Nazva_pozytsii", <<>>)
        name_ua == get(r, "Nazva_pozytsii_ukr", <<>>)
        price == pick_price(r)
        qty == get(r, col_qty, NoneV)
        images == build_image_list(r)
        tr == Triplets(r)
    IN  (IF Truthy(name) THEN <<Node("name", "", xml_safe(name))>> ELSE <<>>)
        \o (IF Truthy(name_ua) THEN <<Node("name_ua", "", xml_safe(name_ua))>> ELSE <<>>)
        \o (IF price # NoneV THEN <<Node("price", "", str(price))>> ELSE <<>>)
        \o <<Node("currencyId", "", CURRENCY)>>
        \o (IF qty # NoneV /\ notna(qty)
            THEN <<Node("quantity_in_stock", "", str(qty))>> ELSE <<>>)
        \o (IF key_requests # <<>> /\ key_requests # NoneV
            THEN <<Node("key_requests", "", join(<<",", " ">>, key_requests))>>
            ELSE <<>>)
        \o [i \in 1..Len(images) |-> Node("picture", "", xml_safe(images[i]))]
        \o [i \in 1..Len(tr) |-> Node("param", tr[i][1], xml_safe(tr[i][3]))]

\* the offers element: one offer per row whose identifier is not blank
to_prom_yml_tree(df, key_requests) ==
    LET col_qty == OrElse(find_first_col(df, SRC_qty), "quantity")
        HasId(r) == strip(str(get(r, "Kod_tovaru", <<>>))) # <<>>
        rs == SelectSeq(df.rows, HasId)
    IN  [i \in 1..Len(rs) |->
            [id |-> strip(str(get(rs[i], "Kod_tovaru", <<>>))),
             available |-> "true",
             children |-> OfferChildren(rs[i], col_qty, key_requests)]]

\* ElementTree's escaping of element text when it writes the document
escape_cdata(text) ==
    replace(replace(replace(text, "&", <<"&", "a", "m", "p", ";">>),
                    "<", <<"&", "l", "t", ";">>),
            ">", <<"&", "g", "t", ";">>)

\* ElementTree's escaping of an attribute value
escape_attrib(text) ==
    replace(escape_cdata(text), "\"", <<"&", "q", "u", "o", "t", ";">>)

\* ET.tostring(yml) behind the XML declaration: the document kept element
\* by element, every text and attribute as the characters written
tostring(offers) ==
    [declaration |-> "<?xml version=\"1.0\" encoding=\"UTF-8\"?>",
     offers |-> [i \in 1..Len(offers) |->
        [id |-> escape_attrib(offers[i].id),
         available |-> offers[i].available,
         children |-> [k \in 1..Len(offers[i].children) |->
             Node(offers[i].children[k].tag,
                  offers[i].children[k].name,
                  escape_cdata(offers[i].children[k].text))]]]]

to_prom_yml(df, key_requests) == tostring(to_prom_yml_tree(df, key_requests))

---------------------------------------------------------------------------
(* receive_file: the generation after the second upload *)

\* merged['Klyuchevye_frazy'] = ', '.join(sess.key_requests) or ''
WithKeyRequests(df) ==
    SetCol(df, "Klyuchevye_frazy",
           [i \in 1..Len(df.rows) |->
               IF sess_key_requests # <<>>
               THEN join(<<",", " ">>, sess_key_requests) ELSE <<>>])

\* if 'Klyuchevye_frazy' not in out_df.columns: out_df[...] = merged[...]
AddKeyColumn(out, m) ==
    IF Col("Klyuchevye_frazy") \in Range(out.columns) THEN out
    ELSE SetCol(out, Col("Klyuchevye_frazy"),
                AlignOnIndex(ColVals(m, "Klyuchevye_frazy"), Len(out.rows)))

\* out_df.to_excel(out_path, index=False): the header row is the frame's
\* columns, a NaN cell is written empty
to_excel(df) ==
    [columns |-> df.columns,
     rows |-> [i \in 1..Len(df.rows) |->
                 [c \in Range(df.columns) |->
                     IF df.rows[i][c] = NaN THEN <<>> ELSE df.rows[i][c]]]]

---------------------------------------------------------------------------
(* Spec: two uploaded tables, merged and exported *)

AttrKeys == [i \in 1..Len(SRC_params_primary) |-> SRC_params_primary[i][1]]

RuColumns ==
    <<"kod", "nazvanie", "opisanie", "tsena", "kolichestvo", "main photo">> \o AttrKeys

UaColumns == <<"kod", "nazva", "opys">>

Without(cols, c) == LET Keep(x) == x # c IN SelectSeq(cols, Keep)

\* the headers of the two uploads: both full, both without a description
\* column, the translation table without a name column
Layouts ==
    { <<RuColumns, UaColumns>>,
      <<Without(RuColumns, "opisanie"), Without(UaColumns, "opys")>>,
      <<RuColumns, Without(UaColumns, "nazva")>> }

AttrAll == [i \in 1..Len(AttrKeys) |-> IF i = 1 THEN <<" ", "1", "&">> ELSE <<"v">>]
AttrSome == [i \in 1..Len(AttrKeys) |->
                IF i = 7 THEN <<"c">> ELSE IF i = 3 THEN <<" ">> ELSE NaN]
AttrNone == [i \in 1..Len(AttrKeys) |-> NaN]

RuRow(id, name, desc, price, qty, photo, attrs) ==
    [c \in Range(RuColumns) |->
        CASE c = "kod" -> id
          [] c = "nazvanie" -> name
          [] c = "opisanie" -> desc
          [] c = "tsena" -> price
          [] c = "kolichestvo" -> qty
          [] c = "main photo" -> photo
          [] OTHER -> attrs[CHOOSE i \in 1..Len(AttrKeys) : AttrKeys[i] = c]]

RuRows ==
    { RuRow(<<"1">>, <<"A", " ", "&", " ", "B", " ", "<", "C", ">">>, <<"d", "1">>,
            <<"1", "9", ",", "9", "9">>, <<"5">>, <<"u", "&", "v", ",", "w">>, AttrAll),
      RuRow(<<" ", "2">>, <<"n", "2">>, <<"d", "2">>,
            <<"x">>, NaN, NaN, AttrSome),
      RuRow(<<" ">>, <<"n", "3">>, <<"d", "3">>,
            NaN, <<"1">>, <<"u">>, AttrNone),
      RuRow(<<"7">>, NaN, NaN,
            <<"0">>, NaN, NaN, AttrNone) }

UaRow(id, name, desc) ==
    [c \in Range(UaColumns) |->
        CASE c = "kod" -> id
          [] c = "nazva" -> name
          [] OTHER -> desc]

UaRows ==
    { UaRow(<<"1">>, <<"u", "1">>, <<"e", "1">>),
      UaRow(<<"2", " ">>, <<"u", "2">>, <<"e", "2">>),
      UaRow(<<"1">>, <<"u", "3">>, <<"e", "3">>) }

SeqsUpTo(S, n) == UNION {[1..k -> S] : k \in 0..n}

Table(cols, rs) ==
    [columns |-> cols,
     rows |-> [i \in 1..Len(rs) |-> [c \in Range(cols) |-> rs[i][c]]]]

Formats == {"xlsx", "yml"}

\* a base row whose identifier has 26 characters
LongIdRow ==
    RuRow([i \in 1..26 |-> IF i = 26 THEN "z" ELSE "9"], <<"n", "4">>, <<"d", "4">>,
          <<"5">>, <<"1">>, NaN, AttrNone)

\* uploads without an identifier column: in the base table, in the
\* translation table, in both
NoIdLayouts ==
    { <<Without(RuColumns, "kod"), UaColumns>>,
      <<RuColumns, Without(UaColumns, "kod")>>,
      <<Without(RuColumns, "kod"), Without(UaColumns, "kod")>> }

\* the pairs of tables the session can hold when the second upload arrives
Uploads ==
    {<<Table(lay[1], rs), Table(lay[2], us)>> :
        lay \in Layouts, rs \in SeqsUpTo(RuRows, MaxRows), us \in SeqsUpTo(UaRows, MaxRows)}
    \cup {<<Table(lay[1], rs), Table(lay[2], us)>> :
            lay \in NoIdLayouts, rs \in SeqsUpTo(RuRows, 1), us \in SeqsUpTo(UaRows, 1)}
    \cup {<<Table(RuColumns, <<LongIdRow>> \o rs), Table(UaColumns, us)>> :
            rs \in SeqsUpTo(RuRows, 1), us \in SeqsUpTo(UaRows, 1)}

Init ==
    /\ done = {}
    /\ desired_format \in Formats
    /\ \E p \in Uploads : df_ru = p[1] /\ df_ua = p[2]
    /\ merged = <<>> /\ out_df = <<>> /\ artifact = <<>>
    /\ yml = <<>> /\ xml_text = <<>>
    /\ row = <<>> /\ urls = <<>>
    \* the second upload was stored and acknowledged
    /\ answer = [kind |-> "file_received", e |-> None]
    /\ log = <<>>
    /\ IdleFn /\ IdleSess /\ IdleConc

\* merged = merge_ru_ua(df_ru, df_ua)
Merge ==
    /\ "merged" \notin done
    /\ merged' = merge_ru_ua(df_ru, df_ua)
    /\ done' = done \cup {"merged"}
    \* except Exception as e: the answer and log_error
    /\ IF merged'.raised
       THEN /\ answer' = [kind |-> "generation_error", e |-> merged'.e]
            /\ log' = Append(log, <<"generation_error", merged'.e>>)
       ELSE UNCHANGED <<answer, log>>
    /\ UNCHANGED <<row, urls, desired_format, df_ru, df_ua, out_df, artifact, yml, xml_text,
                   fn_vars, sess_vars, conc_vars>>

\* desired_format == 'xlsx': to_prom_excel, the key column, to_excel
GenerateXlsx ==
    /\ "merged" \in done /\ ~merged.raised
    /\ desired_format = "xlsx"
    /\ "xlsx" \notin done
    /\ LET m == WithKeyRequests(merged.df)
           out == to_prom_excel(m, NoneV)
       IN  /\ out_df' = out
           /\ artifact' = to_excel(AddKeyColumn(out, m))
    /\ done' = done \cup {"xlsx"}
    /\ answer' = [kind |-> "xlsx_ready", e |-> None]
    /\ UNCHANGED <<row, urls, desired_format, df_ru, df_ua, merged, yml, xml_text, log,
                   fn_vars, sess_vars, conc_vars>>

\* any other format: to_prom_yml, written to the .yml file
GenerateYml ==
    /\ "merged" \in done /\ ~merged.raised
    /\ desired_format # "xlsx"
    /\ "yml" \notin done
    /\ LET m == WithKeyRequests(merged.df)
       IN  /\ yml' = to_prom_yml_tree(m, NoneV)
           /\ xml_text' = to_prom_yml(m, NoneV)
    /\ done' = done \cup {"yml"}
    /\ answer' = [kind |-> "yml_ready", e |-> None]
    /\ UNCHANGED <<row, urls, desired_format, df_ru, df_ua, merged, out_df, artifact, log,
                   fn_vars, sess_vars, conc_vars>>

Next == Merge \/ GenerateXlsx \/ GenerateYml

Spec == Init /\ [][Next]_vars

---------------------------------------------------------------------------
(* SpecSess: one user's session and the handlers that change it *)

\* a file pd.read_excel cannot read as a table
Malformed == [readable |-> FALSE, df |-> <<>>]

\* a file that holds the table df
File(df) == [readable |-> TRUE, df |-> df]

\* the documents the user uploads: a base table, a translation table, a
\* table without an identifier column (headers already lower-case and
\* trimmed, so that normalize_df leaves them as they are), a broken file
Documents ==
    { File(Table(RuColumns, <<RuRow(<<"1">>, <<"n", "1">>, <<"d", "1">>, <<"5">>,
                                     <<"1">>, <<"u">>, AttrSome)>>)),
      File(Table(UaColumns, <<UaRow(<<"1">>, <<"u", "1">>, <<"e", "1">>)>>)),
      File(Table(Without(UaColumns, "kod"), <<>>)),
      Malformed }

\* the key phrases the user types after /addrequestsforprom
KeyPhrases == << <<"k", "1">>, <<"k", "2">> >>

\* pd.read_excel(io.BytesIO(buf.read())): the table or the exception
read_excel(doc) ==
    IF ~doc.readable THEN [raised |-> TRUE, df |-> <<>>]
    ELSE [raised |-> FALSE, df |-> doc.df]

\* mutant: a file that cannot be read is stored as an empty table
AfterUpload_StoreFirst(fs, doc) ==
    Append(fs, IF ~doc.readable THEN [columns |-> <<>>, rows |-> <<>>] ELSE doc.df)

\* sess.files after the try block of receive_file
AfterUpload(fs, doc) ==
    LET rd == read_excel(doc)
    IN  IF rd.raised THEN fs ELSE Append(fs, rd.df)

Answer(kind) == [kind |-> kind, e |-> None]

\* the handler's step generates nothing: the tables, the merged table and
\* the documents of a generation are those of the handler that ran it
NoGeneration ==
    /\ df_ru' = <<>> /\ df_ua' = <<>> /\ merged' = <<>>
    /\ out_df' = <<>> /\ artifact' = <<>> /\ yml' = <<>> /\ xml_text' = <<>>

InitSess ==
    /\ done = {}
    /\ row = <<>> /\ urls = <<>>
    /\ desired_format = None
    /\ IdleExport
    /\ answer = <<>> /\ log = <<>>
    /\ IdleFn /\ IdleSess /\ IdleConc

\* /start
start ==
    /\ files' = <<>>
    /\ sess_key_requests' = <<>>
    /\ keywords' = <<>>
    /\ answer' = Answer("start")
    /\ update' = [type |-> "command", data |-> "start"]
    /\ NoGeneration
    /\ owners' = <<>>
    /\ UNCHANGED <<done, row, urls, desired_format, log, fn_vars, waiting_for_requests,
                   pc, document, out_file, generations>>

\* /stop
stop_bot ==
    /\ files' = <<>>
    /\ desired_format' = None
    /\ sess_key_requests' = <<>>
    /\ keywords' = <<>>
    /\ answer' = Answer("stopped")
    /\ update' = [type |-> "command", data |-> "stop"]
    /\ NoGeneration
    /\ owners' = <<>>
    /\ UNCHANGED <<done, row, urls, log, fn_vars, waiting_for_requests,
                   pc, document, out_file, generations>>

\* /clear
clear_files ==
    /\ files' = <<>>
    /\ sess_key_requests' = <<>>
    /\ keywords' = <<>>
    /\ answer' = Answer("cleared")
    /\ update' = [type |-> "command", data |-> "clear"]
    /\ NoGeneration
    /\ owners' = <<>>
    /\ UNCHANGED <<done, row, urls, desired_format, log, fn_vars, waiting_for_requests,
                   pc, document, out_file, generations>>

\* /addrequestsforprom
add_requests ==
    /\ waiting_for_requests' = TRUE
    /\ answer' = Answer("enter_key_phrases")
    /\ update' = [type |-> "command", data |-> "addrequestsforprom"]
    /\ NoGeneration
    /\ UNCHANGED <<done, row, urls, desired_format, log, fn_vars, conc_vars, files,
                   sess_key_requests, keywords>>

\* the user answers the prompt with the key phrases: a text message, for
\* which no handler is registered, so that nothing of the session changes
SendKeyPhrases ==
    /\ waiting_for_requests
    /\ keywords' = KeyPhrases
    /\ update' = [type |-> "text", data |-> KeyPhrases]
    /\ NoGeneration
    /\ UNCHANGED <<done, row, urls, desired_format, answer, log, fn_vars, conc_vars, files,
                   sess_key_requests, waiting_for_requests>>

\* the callback of a format button
pick_format ==
    \E fmt \in Formats :
        /\ desired_format' = fmt
        /\ files' = <<>> /\ owners' = <<>>
        /\ answer' = Answer("format_chosen")
        /\ update' = [type |-> "callback", data |-> fmt]
        /\ NoGeneration
        /\ UNCHANGED <<done, row, urls, log, fn_vars, sess_key_requests,
                       waiting_for_requests, keywords, pc, document, out_file, generations>>

\* a document arrives: the format test, the upload, and with two tables the
\* generation
receive_file ==
    \E doc \in Documents :
        /\ Len(files) < MaxFiles /\ Len(log) < MaxLog
        /\ update' = [type |-> "document", data |-> doc]
        /\ UNCHANGED <<done, row, urls, desired_format, fn_vars, conc_vars, sess_key_requests,
                       waiting_for_requests, keywords>>
        /\ IF desired_format = None
           THEN \* if not sess.desired_format: return
                /\ answer' = Answer("choose_format")
                /\ NoGeneration
                /\ UNCHANGED <<files, log>>
           ELSE IF read_excel(doc).raised
           THEN \* except Exception as e: answer, log_error, return
                /\ files' = AfterUpload(files, doc)
                /\ answer' = [kind |-> "read_error", e |-> "read_excel"]
                /\ log' = Append(log, <<"read_error", "read_excel">>)
                /\ NoGeneration
           ELSE IF Len(AfterUpload(files, doc)) < 2
           THEN \* if len(sess.files) < 2: return
                /\ files' = AfterUpload(files, doc)
                /\ answer' = Answer("waiting_second")
                /\ NoGeneration
                /\ UNCHANGED log
           ELSE LET fs == AfterUpload(files, doc)
                    mg == merge_ru_ua(fs[1], fs[2])
                    m == WithKeyRequests(mg.df)
                IN  /\ df_ru' = fs[1] /\ df_ua' = fs[2]
                    /\ merged' = mg
                    /\ IF mg.raised
                       THEN \* except Exception as e: the files stay
                            /\ files' = fs
                            /\ answer' = [kind |-> "generation_error", e |-> mg.e]
                            /\ log' = Append(log, <<"generation_error", mg.e>>)
                            /\ out_df' = <<>> /\ artifact' = <<>>
                            /\ yml' = <<>> /\ xml_text' = <<>>
                       ELSE IF desired_format = "xlsx"
                       THEN /\ out_df' = to_prom_excel(m, NoneV)
                            /\ artifact' = to_excel(AddKeyColumn(to_prom_excel(m, NoneV), m))
                            /\ answer' = Answer("xlsx_ready")
                            /\ files' = <<>>
                            /\ yml' = <<>> /\ xml_text' = <<>>
                            /\ UNCHANGED log
                       ELSE /\ yml' = to_prom_yml_tree(m, NoneV)
                            /\ xml_text' = to_prom_yml(m, NoneV)
                            /\ answer' = Answer("yml_ready")
                            /\ files' = <<>>
                            /\ out_df' = <<>> /\ artifact' = <<>>
                            /\ UNCHANGED log

NextSess ==
    \/ start
    \/ stop_bot
    \/ clear_files
    \/ add_requests
    \/ SendKeyPhrases
    \/ pick_format
    \/ receive_file

SpecSess == InitSess /\ [][NextSess]_vars

---------------------------------------------------------------------------
(* SpecConc: receive_file tasks of one user, interleaved at their awaits *)

\* the dispatcher runs every update as a task of its own: one per upload
Tasks == 1..MaxTasks

InitConc ==
    /\ done = {}
    /\ row = <<>> /\ urls = <<>>
    /\ desired_format \in Formats \cup {None}
    /\ IdleExport
    /\ answer = <<>> /\ log = <<>>
    /\ IdleFn
    /\ files = <<>> /\ sess_key_requests = <<>>
    /\ waiting_for_requests = FALSE /\ keywords = <<>>
    /\ update = [type |-> "none", data |-> <<>>]
    /\ pc = [h \in Tasks |-> "start"]
    /\ document \in [Tasks -> Documents]
    /\ out_file = <<>> /\ owners = <<>> /\ generations = <<>>

\* the variables no step of a task changes
conc_fixed == <<done, row, urls, desired_format, fn_vars, sess_key_requests,
                waiting_for_requests, keywords, document>>

\* the generation of task h ends with the given status and exception
Ended(h, status, e) ==
    [i \in 1..Len(generations) |->
        IF generations[i].by = h
        THEN [generations[i] EXCEPT !.status = status, !.e = e]
        ELSE generations[i]]

\* the exception task h caught in its generation
Caught(h) ==
    LET i == CHOOSE k \in 1..Len(generations) : generations[k].by = h
    IN  generations[i].e

\* the format test, up to the await of the answer or of get_file
Begin(h) ==
    /\ pc[h] = "start"
    /\ update' = [type |-> "document", data |-> document[h]]
    /\ IF desired_format = None
       THEN /\ answer' = Answer("choose_format")
            /\ pc' = [pc EXCEPT ![h] = "done"]
       ELSE /\ pc' = [pc EXCEPT ![h] = "get_file"]
            /\ UNCHANGED answer
    /\ UNCHANGED <<conc_fixed, files, owners, out_file, generations, log,
                   df_ru, df_ua, merged, out_df, artifact, yml, xml_text>>

\* after get_file and download_file: read_excel, normalize_df, the append,
\* up to the await of the answer
Upload(h) ==
    /\ pc[h] = "get_file"
    /\ files' = AfterUpload(files, document[h])
    /\ IF read_excel(document[h]).raised
       THEN /\ answer' = [kind |-> "read_error", e |-> "read_excel"]
            /\ pc' = [pc EXCEPT ![h] = "answer_read_error"]
            /\ UNCHANGED owners
       ELSE /\ answer' = Answer("file_received")
            /\ pc' = [pc EXCEPT ![h] = "answer_received"]
            /\ owners' = Append(owners, h)
    /\ UNCHANGED <<conc_fixed, update, out_file, generations, log,
                   df_ru, df_ua, merged, out_df, artifact, yml, xml_text>>

\* after the await of the read error's answer: log_error, return
AfterReadError(h) ==
    /\ pc[h] = "answer_read_error"
    /\ log' = Append(log, <<"read_error", "read_excel">>)
    /\ pc' = [pc EXCEPT ![h] = "done"]
    /\ UNCHANGED <<conc_fixed, update, files, owners, out_file, generations, answer,
                   df_ru, df_ua, merged, out_df, artifact, yml, xml_text>>

\* after the await of 'file received': the test of len(sess.files), and with
\* two tables the merge, the export and the written file, up to the await of
\* answer_document
Generate(h) ==
    /\ pc[h] = "answer_received"
    /\ IF Len(files) < 2
       THEN /\ answer' = Answer("waiting_second")
            /\ pc' = [pc EXCEPT ![h] = "done"]
            /\ UNCHANGED <<generations, out_file, df_ru, df_ua, merged, out_df,
                           artifact, yml, xml_text>>
       ELSE LET mg == merge_ru_ua(files[1], files[2])
                m == WithKeyRequests(mg.df)
                gen(status) == Append(generations,
                                      [by |-> h, used |-> {owners[1], owners[2]},
                                       format |-> desired_format,
                                       status |-> status, e |-> mg.e])
            IN  /\ df_ru' = files[1] /\ df_ua' = files[2]
                /\ merged' = mg
                /\ IF mg.raised
                   THEN /\ answer' = [kind |-> "generation_error", e |-> mg.e]
                        /\ pc' = [pc EXCEPT ![h] = "answer_error"]
                        /\ generations' = gen("raised")
                        /\ out_df' = <<>> /\ artifact' = <<>>
                        /\ yml' = <<>> /\ xml_text' = <<>>
                        /\ UNCHANGED out_file
                   ELSE /\ pc' = [pc EXCEPT ![h] = "answer_document"]
                        /\ generations' = gen("running")
                        /\ out_file' = <<h>>
                        /\ IF desired_format = "xlsx"
                           THEN /\ out_df' = to_prom_excel(m, NoneV)
                                /\ artifact' = to_excel(AddKeyColumn(to_prom_excel(m, NoneV), m))
                                /\ answer' = Answer("xlsx_ready")
                                /\ yml' = <<>> /\ xml_text' = <<>>
                           ELSE /\ yml' = to_prom_yml_tree(m, NoneV)
                                /\ xml_text' = to_prom_yml(m, NoneV)
                                /\ answer' = Answer("yml_ready")
                                /\ out_df' = <<>> /\ artifact' = <<>>
    /\ UNCHANGED <<conc_fixed, update, files, owners, log>>

\* after the await of answer_document: sess.files.clear(), os.remove(out_path).
\* With the file removed by another task, the send or the removal raises
\* FileNotFoundError: before or after the clear.
Finish(h) ==
    /\ pc[h] = "answer_document"
    /\ IF out_file = <<>>
       THEN /\ \E cleared \in BOOLEAN :
                 IF cleared THEN files' = <<>> /\ owners' = <<>>
                 ELSE UNCHANGED <<files, owners>>
            /\ answer' = [kind |-> "generation_error", e |-> "FileNotFoundError"]
            /\ pc' = [pc EXCEPT ![h] = "answer_error"]
            /\ generations' = Ended(h, "file_lost", "FileNotFoundError")
            /\ UNCHANGED out_file
       ELSE /\ files' = <<>> /\ owners' = <<>>
            /\ out_file' = <<>>
            /\ pc' = [pc EXCEPT ![h] = "done"]
            /\ generations' = Ended(h, "sent", None)
            /\ UNCHANGED answer
    /\ UNCHANGED <<conc_fixed, update, log,
                   df_ru, df_ua, merged, out_df, artifact, yml, xml_text>>

\* after the await of the generation error's answer: log_error
AfterError(h) ==
    /\ pc[h] = "answer_error"
    /\ log' = Append(log, <<"generation_error", Caught(h)>>)
    /\ pc' = [pc EXCEPT ![h] = "done"]
    /\ UNCHANGED <<conc_fixed, update, files, owners, out_file, generations, answer,
                   df_ru, df_ua, merged, out_df, artifact, yml, xml_text>>

NextConc ==
    \E h \in Tasks :
        \/ Begin(h)
        \/ Upload(h)
        \/ AfterReadError(h)
        \/ Generate(h)
        \/ Finish(h)
        \/ AfterError(h)

SpecConc == InitConc /\ [][NextConc]_vars

\* the same tasks with the user's /stop and format buttons between their
\* steps: stop_bot and pick_format change the session before their first
\* await, so that each is one step
NextConcSess == NextConc \/ stop_bot \/ pick_format

SpecConcSess == InitConc /\ [][NextConcSess]_vars

---------------------------------------------------------------------------
(* What the claims speak of *)

Merged == "merged" \in done /\ ~merged.raised

\* the identifier of row i of an uploaded table: its id column, trimmed
IdOf(df, i) == strip(str(df.rows[i][find_first_col(df, SRC_id)]))

BaseIds == {IdOf(df_ru, i) : i \in 1..Len(df_ru.rows)}
TranslationIds == {IdOf(df_ua, i) : i \in 1..Len(df_ua.rows)}

\* the resolved identifier of a merged row
MergedId(r) == strip(str(get(r, "Kod_tovaru", <<>>)))

EmptyIdRows == {i \in 1..Len(merged.df.rows) : MergedId(merged.df.rows[i]) = <<>>}

\* C1: a merged row whose identifier is empty after trimming is in the
\* output of neither exporter: no row of to_prom_excel and no offer of
\* to_prom_yml has an empty identifier.
C1_EmptyIdAbsent ==
    /\ "xlsx" \in done =>
          \A i \in 1..Len(out_df.rows) :
              strip(str(out_df.rows[i][Col("Kod_tovaru")])) # <<>>
    /\ "yml" \in done =>
          \A i \in 1..Len(yml) : strip(yml[i].id) # <<>>

\* C1, the tree exporter's half, which the code keeps
C1_YmlSkipsEmptyId ==
    "yml" \in done =>
        /\ \A i \in 1..Len(yml) : strip(yml[i].id) # <<>>
        /\ Len(yml) = Len(merged.df.rows) - Cardinality(EmptyIdRows)

\* C2: to_prom_excel returns as many rows as the merged table has rows
\* with a non-empty identifier.
C2_ExcelRowCount ==
    "xlsx" \in done =>
        Len(out_df.rows) = Len(merged.df.rows) - Cardinality(EmptyIdRows)

\* the column of the translation table a field resolves to, or None
UaCol(aliases) == find_first_col(df_ua, aliases)
RuCol(aliases) == find_first_col(df_ru, aliases)

\* the rows of the written sheet that carry identifier id
SheetRows(id) ==
    {i \in 1..Len(artifact.rows) : strip(str(artifact.rows[i][Col("Kod_tovaru")])) = id}

\* the offers of the written document that carry identifier id
Offers(id) == {i \in 1..Len(yml) : yml[i].id = id}

\* C4: a base row whose identifier matches no translation row is still
\* emitted by either exporter with an empty translated name: the cell of the
\* sheet is empty and the offer carries no translated-name text.
C4_UnmatchedBaseRow ==
    Merged =>
        \A b \in 1..Len(df_ru.rows) :
            LET id == IdOf(df_ru, b)
            IN  (id # <<>> /\ id \notin TranslationIds) =>
                  /\ "xlsx" \in done =>
                        /\ SheetRows(id) # {}
                        /\ \A i \in SheetRows(id) :
                              artifact.rows[i][Col("Nazva_pozytsii_ukr")] = <<>>
                  /\ "yml" \in done =>
                        /\ Offers(id) # {}
                        /\ \A i \in Offers(id) :
                              \A k \in 1..Len(xml_text.offers[i].children) :
                                  xml_text.offers[i].children[k].tag = "name_ua"
                                      => xml_text.offers[i].children[k].text = <<>>

\* C4, the tabular half, which the code keeps
C4_SheetCellEmpty ==
    (Merged /\ "xlsx" \in done) =>
        \A b \in 1..Len(df_ru.rows) :
            LET id == IdOf(df_ru, b)
            IN  (id # <<>> /\ id \notin TranslationIds) =>
                  /\ SheetRows(id) # {}
                  /\ \A i \in SheetRows(id) :
                        artifact.rows[i][Col("Nazva_pozytsii_ukr")] = <<>>

\* the translation rows whose identifier no base row has
UnmatchedTranslations == {k \in 1..Len(df_ua.rows) : IdOf(df_ua, k) \notin BaseIds}

\* C5: every identifier of the merged table is a base row's, and a
\* translation row matching no base row contributes no record and no field
\* value: neither its name nor its description is in the merged table.
C5_UnmatchedTranslationDropped ==
    Merged =>
        /\ \A i \in 1..Len(merged.df.rows) : merged.df.rows[i]["Kod_tovaru"] \in BaseIds
        /\ \A k \in UnmatchedTranslations :
              \A i \in 1..Len(merged.df.rows) :
                  /\ merged.df.rows[i]["Nazva_pozytsii_ukr"] # df_ua.rows[k][UaCol(SRC_name)]
                  /\ UaCol(SRC_description) # None =>
                        merged.df.rows[i]["Opys_ukr"]
                            # str(df_ua.rows[k][UaCol(SRC_description)])

\* C5, the part the code keeps: identifiers and names come from matches only
C5_IdsAndNamesFromBase ==
    Merged =>
        /\ \A i \in 1..Len(merged.df.rows) : merged.df.rows[i]["Kod_tovaru"] \in BaseIds
        /\ \A k \in UnmatchedTranslations :
              \A i \in 1..Len(merged.df.rows) :
                  merged.df.rows[i]["Nazva_pozytsii_ukr"] # df_ua.rows[k][UaCol(SRC_name)]

\* the description a table row carries: '' when the table has no such column
DescOf(df, k) ==
    LET c == find_first_col(df, SRC_description)
    IN  IF c = None THEN <<>> ELSE str(df.rows[k][c])

\* C6: a merged record whose identifier a translation row has takes its
\* translated name and description from a translation row with that
\* identifier, and its own name and description from a base row with it.
C6_FieldsByIdentifier ==
    Merged =>
        \A i \in 1..Len(merged.df.rows) :
            LET m == merged.df.rows[i]
            IN  m["Kod_tovaru"] \in TranslationIds =>
                  /\ \E k \in 1..Len(df_ua.rows) :
                        /\ IdOf(df_ua, k) = m["Kod_tovaru"]
                        /\ m["Nazva_pozytsii_ukr"] = df_ua.rows[k][UaCol(SRC_name)]
                        /\ m["Opys_ukr"] = DescOf(df_ua, k)
                  /\ \E b \in 1..Len(df_ru.rows) :
                        /\ IdOf(df_ru, b) = m["Kod_tovaru"]
                        /\ m["Nazva_pozytsii"] = str(df_ru.rows[b][RuCol(SRC_name)])
                        /\ m["Opys"] = DescOf(df_ru, b)

\* C6, the part the code keeps: the names follow the identifier
C6_NamesByIdentifier ==
    Merged =>
        \A i \in 1..Len(merged.df.rows) :
            LET m == merged.df.rows[i]
            IN  m["Kod_tovaru"] \in TranslationIds =>
                  /\ \E k \in 1..Len(df_ua.rows) :
                        /\ IdOf(df_ua, k) = m["Kod_tovaru"]
                        /\ m["Nazva_pozytsii_ukr"] = df_ua.rows[k][UaCol(SRC_name)]
                  /\ \E b \in 1..Len(df_ru.rows) :
                        /\ IdOf(df_ru, b) = m["Kod_tovaru"]
                        /\ m["Nazva_pozytsii"] = str(df_ru.rows[b][RuCol(SRC_name)])

\* how many translation rows carry the identifier of base row b
Matches(b) == Cardinality({k \in 1..Len(df_ua.rows) : IdOf(df_ua, k) = IdOf(df_ru, b)})

RECURSIVE SumTo(_, _)
SumTo(f, n) == IF n = 0 THEN 0 ELSE f[n] + SumTo(f, n - 1)

\* a base row's identifier is carried by several translation rows
DuplicateMatch == \E b \in 1..Len(df_ru.rows) : Matches(b) > 1

\* C7 as claimed: with several translation rows sharing one identifier the
\* first match wins, so the merged table has one record per base row.
C7_FirstMatchWins ==
    Merged => Len(merged.df.rows) = Len(df_ru.rows)

\* C7 as amended: merge_ru_ua returns, for every base row in order, one
\* record per translation row carrying its identifier, in the translation
\* table's order, and one record when none does; the row count is the base
\* table's exactly when no base row has several matches.
C7_OneRecordPerMatch ==
    Merged =>
        LET n == [b \in 1..Len(df_ru.rows) |-> IF Matches(b) = 0 THEN 1 ELSE Matches(b)]
            from == [b \in 1..Len(df_ru.rows) |-> SumTo(n, b - 1)]
        IN  /\ Len(merged.df.rows) = SumTo(n, Len(df_ru.rows))
            /\ (Len(merged.df.rows) = Len(df_ru.rows)) <=> ~DuplicateMatch
            /\ \A b \in 1..Len(df_ru.rows) :
                  LET ks == {k \in 1..Len(df_ua.rows) : IdOf(df_ua, k) = IdOf(df_ru, b)}
                  IN  \A j \in 1..n[b] :
                        LET m == merged.df.rows[from[b] + j]
                        IN  /\ m["Kod_tovaru"] = IdOf(df_ru, b)
                            /\ \A c \in Range(df_ru.columns) : m[c] = df_ru.rows[b][c]
                            /\ IF ks = {} THEN m["Nazva_pozytsii_ukr"] = NaN
                               ELSE \E k \in ks :
                                      /\ Cardinality({x \in ks : x <= k}) = j
                                      /\ m["Nazva_pozytsii_ukr"]
                                            = df_ua.rows[k][UaCol(SRC_name)]

\* two translation rows carry the identifier of a base row, and the merged
\* table has more rows than the base table
C7_Witness ==
    /\ Merged
    /\ DuplicateMatch
    /\ Len(merged.df.rows) > Len(df_ru.rows)

\* text with each of & < > replaced once by its entity
EscapedOnce(s) ==
    Flatten([i \in 1..Len(s) |->
        CASE s[i] = "&" -> <<"&", "a", "m", "p", ";">>
          [] s[i] = "<" -> <<"&", "l", "t", ";">>
          [] s[i] = ">" -> <<"&", "g", "t", ";">>
          [] OTHER -> <<s[i]>>])

\* the merged rows that become offers, in order
OfferRows == LET HasId(r) == MergedId(r) # <<>> IN SelectSeq(merged.df.rows, HasId)

\* the texts of the children of offer i with the given tag, as written
Written(i, tag) ==
    LET Is(c) == c.tag = tag
        cs == SelectSeq(xml_text.offers[i].children, Is)
    IN  [k \in 1..Len(cs) |-> cs[k].text]

\* C8: every name, photo URL and attribute value is written to the document
\* with each & < > escaped exactly once; the name "A & B <C>" is written as
\* "A &amp; B &lt;C&gt;".
C8_EscapedOnce ==
    "yml" \in done =>
        \A i \in 1..Len(xml_text.offers) :
            LET r == OfferRows[i]
                images == build_image_list(r)
                tr == Triplets(r)
            IN  /\ \A k \in 1..Len(Written(i, "name")) :
                      Written(i, "name")[k] = EscapedOnce(str(r["Nazva_pozytsii"]))
                /\ \A k \in 1..Len(Written(i, "name_ua")) :
                      Written(i, "name_ua")[k] = EscapedOnce(str(r["Nazva_pozytsii_ukr"]))
                /\ Written(i, "picture") = [k \in 1..Len(images) |-> EscapedOnce(images[k])]
                /\ Written(i, "param") = [k \in 1..Len(tr) |-> EscapedOnce(tr[k][3])]
                /\ r["Nazva_pozytsii"] = <<"A", " ", "&", " ", "B", " ", "<", "C", ">">>
                      => Written(i, "name") =
                            << <<"A", " ", "&", "a", "m", "p", ";", " ", "B", " ",
                                 "&", "l", "t", ";", "C", "&", "g", "t", ";">> >>

\* the attributes of a merged row that are eligible: column present, value
\* not blank, in the declared order of the alias list
Eligible(r) ==
    LET Ok(p) == p[1] \in DOMAIN r /\ notna(r[p[1]]) /\ strip(str(r[p[1]])) # <<>>
    IN  SelectSeq(SRC_params_primary, Ok)

\* the triplet groups of row i of the export that are filled
FilledGroups(i) ==
    {g \in 1..Len(SRC_params_primary) :
        /\ <<XlsPrefixes[1], g>> \in DOMAIN out_df.rows[i]
        /\ out_df.rows[i][<<XlsPrefixes[1], g>>] \notin {<<>>, NaN}}

\* C9: neither exporter emits more attribute triplets for a record than the
\* schema has groups; with more eligible attributes, the first ones in the
\* declared order are emitted and the rest dropped.
C9_AttributeCap ==
    /\ "xlsx" \in done =>
          \A i \in 1..Len(out_df.rows) :
              LET el == Eligible(merged.df.rows[i])
                  n == IF Len(el) < XlsTriplets THEN Len(el) ELSE XlsTriplets
              IN  /\ Cardinality(FilledGroups(i)) <= XlsTriplets
                  /\ FilledGroups(i) = 1..n
                  /\ \A g \in 1..n : out_df.rows[i][<<XlsPrefixes[1], g>>] = <<el[g][2]>>
    /\ "yml" \in done =>
          \A i \in 1..Len(yml) :
              LET el == Eligible(OfferRows[i])
                  n == IF Len(el) < XlsTriplets THEN Len(el) ELSE XlsTriplets
                  Param(c) == c.tag = "param"
                  ps == SelectSeq(yml[i].children, Param)
              IN  /\ Len(ps) <= XlsTriplets
                  /\ Len(ps) = n
                  /\ \A g \in 1..n : ps[g].name = el[g][2]

\* C9, what the code keeps: the attributes are emitted in declared order
C9_DeclaredOrder ==
    "yml" \in done =>
        \A i \in 1..Len(yml) :
            LET el == Eligible(OfferRows[i])
                Param(c) == c.tag = "param"
                ps == SelectSeq(yml[i].children, Param)
            IN  /\ Len(ps) = Len(el)
                /\ \A g \in 1..Len(el) : ps[g].name = el[g][2]

\* C10: the sheet handed to the user has exactly the columns of
\* PROM_XLS_COLS, in that order, whatever the merged table holds.
C10_SchemaColumns ==
    "xlsx" \in done => artifact.columns = PROM_XLS_COLS

\* C10, what the code keeps for a table with rows: the schema's columns come
\* first and in order
C10_SchemaIsPrefix ==
    ("xlsx" \in done /\ Len(out_df.rows) > 0) =>
        /\ Len(artifact.columns) > Len(PROM_XLS_COLS)
        /\ SubSeq(artifact.columns, 1, Len(PROM_XLS_COLS)) = PROM_XLS_COLS

\* C11: every row to_prom_excel emits carries, as its identifier, a merged
\* row's identifier cut to its first 25 characters: never more than 25.
C11_IdTruncated ==
    "xlsx" \in done =>
        \A i \in 1..Len(out_df.rows) :
            LET cell == out_df.rows[i][Col("Kod_tovaru")]
            IN  /\ Len(cell) <= 25
                /\ \E k \in 1..Len(merged.df.rows) :
                      cell = Take(MergedId(merged.df.rows[k]), 25)

\* C11, what the code does: the identifier cell is the merged identifier whole
C11_IdWhole ==
    "xlsx" \in done =>
        /\ Len(out_df.rows) = Len(merged.df.rows)
        /\ \A i \in 1..Len(out_df.rows) :
              out_df.rows[i][Col("Kod_tovaru")] = merged.df.rows[i]["Kod_tovaru"]

\* the price aliases, in declared order, whose column holds a value in r
Holding(r) ==
    LET Has(c) == c \in DOMAIN r /\ notna(r[c]) IN SelectSeq(SRC_price, Has)

\* the number a cell parses to, comma read as the decimal point, or ValueError
ParsePrice(v) == float(strip(replace(str(v), ",", <<".">>)))

\* C12: pick_price is decided by the first price alias column, in declared
\* order, that holds a value: the price is that value's number, it is absent
\* when the value does not parse, and no later alias column changes it.
C12_FirstValueGoverns ==
    "price" \in done =>
        LET hs == Holding(row)
        IN  IF hs = <<>> THEN picked_price = NoneV
            ELSE LET first == hs[1]
                     only == [c \in (DOMAIN row \ Range(SRC_price)) \cup {first} |-> row[c]]
                 IN  /\ ParsePrice(row[first]) = ValueError => picked_price = NoneV
                     /\ ParsePrice(row[first]) # ValueError
                           => picked_price = ParsePrice(row[first])
                     /\ picked_price = pick_price(only)

\* the first column holding a value does not parse, a later one does, and
\* the price is absent
C12_Witness ==
    /\ "price" \in done
    /\ Len(Holding(row)) > 1
    /\ ParsePrice(row[Holding(row)[1]]) = ValueError
    /\ \E k \in 2..Len(Holding(row)) : ParsePrice(row[Holding(row)[k]]) # ValueError
    /\ picked_price = NoneV

\* the merged rows with an identifier, by position
IdRows == {k \in 1..Len(merged.df.rows) : MergedId(merged.df.rows[k]) # <<>>}

\* the children of offer i of the tree with the given tag
Children(i, tag) == LET Is(c) == c.tag = tag IN SelectSeq(yml[i].children, Is)

\* C13: the sheet's price cell is the parsed price whenever pick_price yields
\* one, 0 included, and empty exactly when it yields none; the offer has one
\* price node with the parsed price, or none exactly when the price is absent.
C13_PriceEmitted ==
    /\ "xlsx" \in done =>
          \A k \in IdRows :
              LET p == pick_price(merged.df.rows[k])
                  rs == SheetRows(MergedId(merged.df.rows[k]))
              IN  /\ rs # {}
                  /\ \A i \in rs :
                        artifact.rows[i][Col("Tsina")] = (IF p = NoneV THEN <<>> ELSE p)
    /\ "yml" \in done =>
          \A i \in 1..Len(yml) :
              LET p == pick_price(OfferRows[i])
                  ns == Children(i, "price")
              IN  IF p = NoneV THEN ns = <<>>
                  ELSE Len(ns) = 1 /\ ns[1].text = str(p)

\* C13, the tree exporter's half, which the code keeps
C13_YmlPrice ==
    "yml" \in done =>
        \A i \in 1..Len(yml) :
            LET p == pick_price(OfferRows[i])
                ns == Children(i, "price")
            IN  IF p = NoneV THEN ns = <<>>
                ELSE Len(ns) = 1 /\ ns[1].text = str(p)

\* a value of the merged record that is not empty: neither '' nor missing
NonEmpty(v) == v # <<>> /\ v # NaN

\* C14: an offer has a name, name_ua, description, description_ua child
\* exactly when that value of the merged record is not empty, and always a
\* currencyId child.
C14_ChildPresence ==
    "yml" \in done =>
        \A i \in 1..Len(yml) :
            LET r == OfferRows[i]
            IN  /\ Children(i, "name") # <<>> <=> NonEmpty(r["Nazva_pozytsii"])
                /\ Children(i, "name_ua") # <<>> <=> NonEmpty(r["Nazva_pozytsii_ukr"])
                /\ Children(i, "description") # <<>> <=> NonEmpty(r["Opys"])
                /\ Children(i, "description_ua") # <<>> <=> NonEmpty(r["Opys_ukr"])
                /\ Len(Children(i, "currencyId")) = 1

\* C14, what the code keeps: the primary name follows its value and the
\* currency is always there
C14_NameAndCurrency ==
    "yml" \in done =>
        \A i \in 1..Len(yml) :
            LET r == OfferRows[i]
            IN  /\ Children(i, "name") # <<>> <=> NonEmpty(r["Nazva_pozytsii"])
                /\ Len(Children(i, "currencyId")) = 1
                /\ Children(i, "currencyId")[1].text = CURRENCY

\* no identifier column resolves in one of the uploaded tables
NoIdColumn == RuCol(SRC_id) = None \/ UaCol(SRC_id) = None

\* the kinds of answer of the generic handler of a failed generation
GenericFailure == {"generation_error"}

\* C15: with no identifier column in one of the tables nothing is generated
\* from the pair, and the failure answered is not the generic generation
\* failure.
C15_DistinctFailure ==
    ("merged" \in done /\ NoIdColumn) =>
        /\ merged.raised
        /\ "xlsx" \notin done /\ "yml" \notin done
        /\ artifact = <<>> /\ xml_text = <<>>
        /\ answer.kind \notin GenericFailure

\* C15, what the code keeps: the merge is abandoned with the KeyError of the
\* fallback column, answered and logged by the generic handler
C15_Aborted ==
    ("merged" \in done /\ NoIdColumn) =>
        /\ merged.raised /\ merged.e = "kod"
        /\ "xlsx" \notin done /\ "yml" \notin done
        /\ artifact = <<>> /\ xml_text = <<>>
        /\ answer = [kind |-> "generation_error", e |-> "kod"]
        /\ log = << <<"generation_error", "kod">> >>

\* the price cell of r that decides does not parse
Unparseable(r) ==
    /\ Holding(r) # <<>>
    /\ ParsePrice(r[Holding(r)[1]]) = ValueError

\* the merged table without the rows whose price does not parse
WithoutUnparseable ==
    LET Good(r) == ~Unparseable(r)
    IN  [columns |-> merged.df.columns, rows |-> SelectSeq(merged.df.rows, Good)]

\* the rows of s that satisfy Keep, kept by their position in the merged table
RECURSIVE KeptRows(_, _, _)
KeptRows(s, n, keep) ==
    IF n = 0 THEN <<>>
    ELSE KeptRows(s, n - 1, keep) \o (IF n \in keep THEN <<s[n]>> ELSE <<>>)

\* the schema's cells of a sheet row
SchemaCells(r) == [c \in Range(PROM_XLS_COLS) |-> r[c]]

\* the rows of the exports that come from a row whose price parses or is absent
GoodRowsUnaffected ==
    LET good == {k \in 1..Len(merged.df.rows) : ~Unparseable(merged.df.rows[k])}
        alone == WithKeyRequests(WithoutUnparseable)
    IN  /\ "xlsx" \in done =>
              LET kept == KeptRows(out_df.rows, Len(out_df.rows), good)
                  ref == to_prom_excel(alone, NoneV).rows
              IN  /\ Len(kept) = Len(ref)
                  /\ \A j \in 1..Len(ref) : SchemaCells(kept[j]) = SchemaCells(ref[j])
        /\ "yml" \in done =>
              LET goodOffers == {i \in 1..Len(yml) : ~Unparseable(OfferRows[i])}
              IN  KeptRows(yml, Len(yml), goodOffers) = to_prom_yml_tree(alone, NoneV)

\* the rows with an unparseable price are exported, without a price
BadRowsKept ==
    /\ "xlsx" \in done =>
          /\ Len(out_df.rows) = Len(merged.df.rows)
          /\ \A k \in 1..Len(merged.df.rows) :
                Unparseable(merged.df.rows[k]) => out_df.rows[k][Col("Tsina")] = <<>>
    /\ "yml" \in done =>
          \A i \in 1..Len(yml) :
              Unparseable(OfferRows[i]) => Children(i, "price") = <<>>

\* C16: a row whose price does not parse is still exported, without a price,
\* the other rows are exported as they would be without it, and the anomaly
\* is appended to the log.
C16_UnparseableLogged ==
    ("xlsx" \in done \/ "yml" \in done) =>
        /\ BadRowsKept
        /\ GoodRowsUnaffected
        /\ (\E k \in 1..Len(merged.df.rows) : Unparseable(merged.df.rows[k]))
              => log # <<>>

\* C16, what the code keeps: the row is exported without a price and the
\* other rows are not affected; nothing is logged
C16_BatchNotAborted ==
    ("xlsx" \in done \/ "yml" \in done) =>
        /\ BadRowsKept
        /\ GoodRowsUnaffected
        /\ log = <<>>

\* a name or description column resolves in neither spelling in some table,
\* while both identifier columns resolve
FieldUnresolved ==
    /\ ~NoIdColumn
    /\ \/ RuCol(SRC_name) = None \/ UaCol(SRC_name) = None
       \/ RuCol(SRC_description) = None \/ UaCol(SRC_description) = None

\* C17: with the identifier columns resolved and a name or description
\* column unresolved, merge_ru_ua returns a table with a record for every
\* base row, the unresolved field empty.
C17_NoAbort ==
    ("merged" \in done /\ FieldUnresolved) =>
        /\ ~merged.raised
        /\ \A b \in 1..Len(df_ru.rows) :
              \E k \in 1..Len(merged.df.rows) :
                  merged.df.rows[k]["Kod_tovaru"] = IdOf(df_ru, b)
        /\ \A k \in 1..Len(merged.df.rows) :
              LET m == merged.df.rows[k]
              IN  /\ RuCol(SRC_name) = None => m["Nazva_pozytsii"] \in {<<>>, NaN}
                  /\ UaCol(SRC_name) = None => m["Nazva_pozytsii_ukr"] \in {<<>>, NaN}
                  /\ RuCol(SRC_description) = None => m["Opys"] = <<>>
                  /\ UaCol(SRC_description) = None => m["Opys_ukr"] = <<>>

\* C17, what the code keeps: an unresolved description column leaves the
\* description empty; an unresolved name column is a KeyError
C17_DescriptionOptional ==
    ("merged" \in done /\ ~NoIdColumn) =>
        IF RuCol(SRC_name) = None \/ UaCol(SRC_name) = None
        THEN merged.raised /\ answer.kind = "generation_error"
        ELSE /\ ~merged.raised
             /\ \A k \in 1..Len(merged.df.rows) :
                   LET m == merged.df.rows[k]
                   IN  /\ RuCol(SRC_description) = None => m["Opys"] = <<>>
                       /\ UaCol(SRC_description) = None => m["Opys_ukr"] = <<>>

\* C18: an upload that cannot be read as a table is rejected and leaves the
\* session as it was: the stored tables, the format and the key phrases are
\* unchanged and the handler generates nothing.
C18_MalformedRejected ==
    [][(update'.type = "document" /\ ~update'.data.readable) =>
          /\ files' = files
          /\ desired_format' = desired_format
          /\ sess_key_requests' = sess_key_requests
          /\ waiting_for_requests' = waiting_for_requests
          /\ merged' = <<>> /\ out_df' = <<>> /\ artifact' = <<>>
          /\ yml' = <<>> /\ xml_text' = <<>>
          /\ answer'.kind \in {"read_error", "choose_format"}
          /\ answer'.kind = "read_error" <=> desired_format # None]_vars

\* a broken file has arrived as the second upload of a session with a
\* format: it was answered with the read error and the first table is kept
C18_Witness ==
    /\ update.type = "document" /\ ~update.data.readable
    /\ desired_format # None
    /\ Len(files) = 1
    /\ answer.kind = "read_error"
    /\ log # <<>>

\* ', '.join of the key phrases the user sent
KeywordText == join(<<",", " ">>, keywords)

\* C19: when the user has sent key phrases before the second upload, every
\* row of the sheet carries them in its key-phrase cell and every offer of the
\* document has a key-phrase node with them.
C19_KeywordsEmbedded ==
    keywords # <<>> =>
        /\ artifact # <<>> =>
              \A i \in 1..Len(artifact.rows) :
                  \E c \in Range(artifact.columns) :
                      /\ c \in {Col("Klyuchovi_frazy"), Col("Klyuchevye_frazy")}
                      /\ artifact.rows[i][c] = KeywordText
        /\ xml_text # <<>> =>
              \A i \in 1..Len(xml_text.offers) :
                  \E k \in 1..Len(xml_text.offers[i].children) :
                      /\ xml_text.offers[i].children[k].tag = "key_requests"
                      /\ xml_text.offers[i].children[k].text = KeywordText

\* C19, what the code does: the phrases are never stored, the key-phrase
\* cells are empty and no offer has a key-phrase node
C19_NeverStored ==
    /\ sess_key_requests = <<>>
    /\ artifact # <<>> =>
          \A i \in 1..Len(artifact.rows) :
              /\ artifact.rows[i][Col("Klyuchovi_frazy")] = <<>>
              /\ artifact.rows[i][Col("Klyuchevye_frazy")] = <<>>
    /\ xml_text # <<>> =>
          \A i \in 1..Len(xml_text.offers) :
              \A k \in 1..Len(xml_text.offers[i].children) :
                  xml_text.offers[i].children[k].tag # "key_requests"

\* the headers of the uploaded table, lower-cased and trimmed
NormalHeaders ==
    {lower(strip(str(raw_columns.columns[i]))) : i \in 1..Len(raw_columns.columns)}

\* the table with its columns in the opposite order
Reversed(df) ==
    [columns |-> [i \in 1..Len(df.columns) |-> df.columns[Len(df.columns) + 1 - i]],
     rows |-> df.rows]

\* C20: find_first_col on a normalized table returns the earliest alias of
\* the list that is equal to a lower-cased, trimmed header, whatever the order
\* of the columns, and None when no alias is equal to any header.
C20_DeclaredOrder ==
    "cols" \in done =>
        LET hit == {i \in 1..Len(alias_list) : alias_list[i] \in NormalHeaders}
        IN  /\ IF hit = {} THEN found_col = None
               ELSE \E i \in hit : /\ found_col = alias_list[i]
                                 /\ \A j \in hit : i <= j
            /\ find_first_col(normalize_df(Reversed(raw_columns)), alias_list) = found_col

\* two columns match two aliases in the opposite order, one header needs
\* trimming or lower-casing, and the first alias is returned
C20_Witness ==
    /\ "cols" \in done
    /\ lower(strip(str(raw_columns.columns[1]))) = alias_list[2]
    /\ lower(strip(str(raw_columns.columns[2]))) = alias_list[1]
    /\ alias_list[1] # alias_list[2]
    /\ raw_columns.columns[1] # alias_list[2]
    /\ found_col = alias_list[1]

\* the tasks whose upload was stored
Accepted == {h \in Tasks : pc[h] \notin {"start", "get_file", "answer_read_error"}
                           /\ read_excel(document[h]).raised = FALSE
                           /\ desired_format # None}

AllDone == \A h \in Tasks : pc[h] = "done"

\* C21: under every interleaving of the receive_file tasks of one user, no
\* uploaded table is used by two generations, no generation fails because
\* another task removed the output file or cleared the session, and the
\* generations are as many as the completed pairs of accepted uploads.
C21_OneGenerationPerPair ==
    pc # <<>> =>
        /\ \A i \in 1..Len(generations), j \in 1..Len(generations) :
              i # j => generations[i].used \cap generations[j].used = {}
        /\ \A i \in 1..Len(generations) : generations[i].status # "file_lost"
        /\ 2 * Len(generations) <= Cardinality(Accepted)
        /\ AllDone => Len(generations) = Cardinality(Accepted) \div 2

\* C21, what the code keeps: a completed pair is generated from at least
\* once, and only tables that were uploaded are used
C21_PairGenerated ==
    pc # <<>> =>
        /\ \A i \in 1..Len(generations) : generations[i].used \subseteq Accepted
        /\ (AllDone /\ Cardinality(Accepted) >= 2) => Len(generations) >= 1

\* the last update was a document and receive_file ran a generation on it,
\* which was sent or raised
GenerationEnded ==
    /\ update.type = "document"
    /\ answer.kind \in {"xlsx_ready", "yml_ready", "generation_error"}

\* C22: whenever a generation attempt of receive_file has ended, sent or
\* raised, the session holds no pending table; a session never holds more
\* than two tables; and a generation pairs the table just uploaded with the
\* one uploaded before it, never with tables left by an earlier attempt
C22_FilesEmptyAfterGeneration ==
    /\ GenerationEnded => files = <<>>
    /\ Len(files) <= 2
    /\ GenerationEnded => df_ua = update.data.df

\* C22, what the code keeps: after a generation that was sent the session
\* holds no pending table
C22_ClearedWhenSent ==
    (update.type = "document" /\ answer.kind \in {"xlsx_ready", "yml_ready"})
        => files = <<>>

\* C22, the failing case: a generation raised and its two tables stay
C22_StalePair ==
    GenerationEnded /\ answer.kind = "generation_error" /\ Len(files) = 3

\* C23, what the code keeps when the handlers of a user run one after
\* another: without a format the session holds no table, and receive_file
\* answers with the format prompt, stores nothing and generates nothing;
\* /stop resets the format and the tables; the callback of a format button
\* discards every table uploaded before it
C23_FormatGatesUploads ==
    /\ [](desired_format = None => files = <<>>)
    /\ [][(update'.type = "document" /\ desired_format = None) =>
              /\ answer'.kind = "choose_format"
              /\ files' = <<>> /\ desired_format' = None
              /\ merged' = <<>> /\ out_df' = <<>> /\ artifact' = <<>>
              /\ yml' = <<>> /\ xml_text' = <<>>]_vars
    /\ [][(Len(files') > Len(files) \/ GenerationEnded') =>
              /\ update'.type = "document"
              /\ desired_format \in Formats
              /\ desired_format' = desired_format]_vars
    /\ [][(update'.type = "command" /\ update'.data = "stop") =>
              desired_format' = None /\ files' = <<>>]_vars
    /\ [][update'.type = "callback" =>
              desired_format' = update'.data /\ files' = <<>>]_vars

\* C23, the case after /stop: an upload was accepted earlier (its read error is in the
\* log), /stop reset the format, and the next upload is answered with the
\* format prompt
C23_Witness ==
    /\ Len(log) > 0
    /\ desired_format = None
    /\ update.type = "document" /\ update.data.readable
    /\ answer.kind = "choose_format"
    /\ files = <<>>

\* C23, with the handlers of one user interleaved at their awaits: a session
\* without a chosen format holds no table, and no generation runs without a
\* chosen format
C23_StoredOnlyWithFormat ==
    /\ desired_format = None => files = <<>>
    /\ \A i \in 1..Len(generations) : generations[i].format \in Formats

====
